---- MODULE Spec2Model ----
(***************************************************************************)
(* The Rust benchmark programs of the repository, each a standalone main:  *)
(*   "fan"       benchmarks/asyncio/rust_bench/src/main.rs                 *)
(*   "cpu"       benchmarks/asyncio/rust_bench/src/bin/bench_cpu.rs        *)
(*   "io"        benchmarks/asyncio/rust_bench/src/bin/bench_io.rs         *)
(*   "regex"     packages/regex/bench_rust.rs                              *)
(*   "realistic" packages/regex/bench_rust_realistic.rs                    *)
(*   "fib"       benchmarks/rust/fibonacci_tail.rs                         *)
(* A behaviour is one run of one program: Init picks the program (prog)    *)
(* and the inputs its environment supplies, and only that program's        *)
(* actions are enabled.  Elapsed times are not modelled: the lines a       *)
(* program prints are recorded without their timing columns.               *)
(***************************************************************************)
EXTENDS Integers, Sequences, FiniteSets, Bags

VARIABLES
  prog,            \* the program being run
  pc,              \* position of the program's main
  stdout,          \* the lines printed so far
  panic,           \* the panic message of an aborted run, "" otherwise
  total,           \* `total` of main.rs / bench_io.rs, `_par_total` of bench_cpu.rs
  \* rayon's parallel iterator (main.rs, bench_cpu.rs)
  pieces,          \* sub-ranges of the iterator waiting in the pool's deques
  running,         \* per pool thread: the sub-range it folds, its cursor and accumulator
  partials,        \* results of folded sub-ranges not yet reduced
  calls,           \* per index: how many times the mapped function has returned
  \* bench_cpu.rs
  seq_total,       \* `_seq_total`
  fed_seq,         \* bag of the values fed to the hasher by the sequential phase
  fed_par,         \* bag of the values fed to the hashers by the parallel phase
  \* bench_io.rs
  handles,         \* number of handles collected by the spawning map
  task,            \* per task id: its state in the tokio runtime
  output,          \* per task id: the value its JoinHandle resolves to
  next_handle,     \* index of the handle the `for handle in handles` loop is at
  awaited,         \* per task id: how many times its handle was awaited
  \* bench_rust.rs, bench_rust_realistic.rs
  file_ok,         \* whether the fixed-path input file can be read
  compile_fails,   \* the benchmark entries whose pattern Regex::new rejects
  text,            \* "unread" or "loaded"
  bench,           \* index of the benchmark entry main is at
  loop_i,          \* counter of the warmup / timed loop of benchmark_pattern
  passes,          \* per entry: number of find_iter passes over the text
  compiles,        \* number of Regex::new calls made
  \* fibonacci_tail.rs
  overflow_checks, \* the build profile: TRUE panics on overflow, FALSE wraps
  runs,            \* iterations of main's loop completed
  n, a, b,         \* the arguments of the pending fib_tail call
  fib_result       \* `result` of main

mainVars  == <<prog, pc, stdout, panic, total>>
rayonVars == <<pieces, running, partials, calls>>
cpuVars   == <<seq_total, fed_seq, fed_par>>
ioVars    == <<handles, task, output, next_handle, awaited>>
rxVars    == <<file_ok, compile_fails, text, bench, loop_i, passes, compiles>>
fibVars   == <<overflow_checks, runs, n, a, b, fib_result>>
vars == <<mainVars, rayonVars, cpuVars, ioVars, rxVars, fibVars>>

(***************************************************************************)
(* Bounds.  The workload sizes are compile-time constants of the programs; *)
(* the model runs the same code on scaled-down sizes.                      *)
(***************************************************************************)
\* main.rs:7   const NUM_TASKS: i64 = 1000
FAN_NUM_TASKS == 4
\* main.rs:8   const WORK_PER_TASK: i64 = 10000
WORK_PER_TASK == 3
\* size of rayon's global thread pool (one thread per core by default)
POOL_THREADS == 2
\* bench_cpu.rs:7   const NUM_WORKERS: usize = 8
NUM_WORKERS == 3
\* bench_cpu.rs:8   const WORK_PER_WORKER: usize = 50000
WORK_PER_WORKER == 2
\* bench_io.rs:5   const NUM_TASKS: i64 = 10000
IO_NUM_TASKS == 3
\* bench_rust.rs:24   for _ in 0..100
WARMUP_PASSES == 2
\* bench_rust.rs:100 (10000) and bench_rust_realistic.rs:35-39 (1000, 500, 100)
ITERATIONS == 2
\* fibonacci_tail.rs:7   for _ in 0..10000
FIB_RUNS == 2

Range(s) == {s[i] : i \in DOMAIN s}

RECURSIVE SumTo(_, _)
SumTo(f, S) == IF S = {} THEN 0
               ELSE LET x == CHOOSE y \in S : TRUE IN f[x] + SumTo(f, S \ {x})

(***************************************************************************)
(* benchmarks/asyncio/rust_bench/src/main.rs                               *)
(***************************************************************************)
\* worker's loop, from iteration i with accumulator `result`.  The sums stay
\* far below 2^63 (the real total is 49995000 * 499500), so i64 never wraps.
RECURSIVE WorkerLoop(_, _, _)
WorkerLoop(task_id, i, result) ==
  IF i >= WORK_PER_TASK THEN result
  ELSE WorkerLoop(task_id, i + 1, result + i * task_id)

worker(task_id) == WorkerLoop(task_id, 0, 0)

(***************************************************************************)
(* benchmarks/asyncio/rust_bench/src/bin/bench_cpu.rs                      *)
(***************************************************************************)
\* usize::to_string: the decimal digits, most significant first
RECURSIVE to_string(_)
to_string(x) == IF x < 10 THEN <<x>> ELSE Append(to_string(x \div 10), x % 10)

\* str::as_bytes of a decimal string: the ASCII codes of its digits
AsBytes(digits) == [i \in DOMAIN digits |-> 48 + digits[i]]

\* Sha256::update appends to the message being hashed
HasherUpdate(hasher, bytes) == hasher \o bytes

\* the loop of do_work: the hasher after iterations i..iterations-1
RECURSIVE DoWorkLoop(_, _, _, _)
DoWorkLoop(worker_id, iterations, i, hasher) ==
  IF i >= iterations THEN hasher
  ELSE DoWorkLoop(worker_id, iterations, i + 1,
                  HasherUpdate(hasher, AsBytes(to_string(worker_id + i))))

\* the values worker_id + i that do_work feeds to its hasher, in order
DoWorkInputs(worker_id, iterations) ==
  [j \in 1..iterations |-> worker_id + (j - 1)]

\* Sha256 output size in bytes
DIGEST_BYTES == 32

RECURSIVE SumSeq(_)
SumSeq(s) == IF s = <<>> THEN 0 ELSE Head(s) + SumSeq(Tail(s))

\* Sha256::finalize: a 32-byte digest that depends on the whole message.  The
\* mixing function stands in for SHA-256; only the digest's size is SHA-256's.
Sha256Finalize(hasher) ==
  [j \in 1..DIGEST_BYTES |-> (SumSeq(hasher) * j + Len(hasher) * 7 + j * j) % 256]

HexDigits == <<"0","1","2","3","4","5","6","7","8","9","a","b","c","d","e","f">>

\* LowerHex without the zero padding: a byte below 16 gives one digit
RECURSIVE LowerHexUnpadded(_)
LowerHexUnpadded(bytes) ==
  IF bytes = <<>> THEN <<>>
  ELSE (IF Head(bytes) < 16 THEN <<>> ELSE <<HexDigits[(Head(bytes) \div 16) + 1]>>)
       \o <<HexDigits[(Head(bytes) % 16) + 1]>> \o LowerHexUnpadded(Tail(bytes))

\* format!("{:x}", digest): every byte as two lower-case hex digits
RECURSIVE LowerHex(_)


LowerHex(bytes) ==
  IF bytes = <<>> THEN <<>>
  ELSE <<HexDigits[(Head(bytes) \div 16) + 1], HexDigits[(Head(bytes) % 16) + 1]>>
       \o LowerHex(Tail(bytes))

do_work(worker_id, iterations) ==
  Len(LowerHex(Sha256Finalize(DoWorkLoop(worker_id, iterations, 0, <<>>))))

BagOfSeq(s) == [v \in Range(s) |-> Cardinality({i \in DOMAIN s : s[i] = v})]

(***************************************************************************)
(* rayon: (0..len).into_par_iter().map(f).sum()                            *)
(* The range is split in halves into sub-ranges, pool threads fold         *)
(* sub-ranges sequentially, and the results of adjacent sub-ranges are     *)
(* added together until one result for the whole range is left.            *)
(***************************************************************************)
ParLen == IF prog = "fan" THEN FAN_NUM_TASKS ELSE NUM_WORKERS

\* the mapped function: worker in main.rs, |id| do_work(id, WORK_PER_WORKER)
\* in bench_cpu.rs
ParMap(id) == IF prog = "fan" THEN worker(id) ELSE do_work(id, WORK_PER_WORKER)


\* ParFold with the accumulator overwritten instead of added to
ParFoldOverwrites(acc, id) == ParMap(id)

\* sum()'s fold step over one sub-range
ParFold(acc, id) == acc + ParMap(id)

\* sum()'s reduce step over two sub-range results
ParReduce(left, right) == left + right

Idle == [busy |-> FALSE, lo |-> 0, hi |-> 0, cur |-> 0, acc |-> 0]

ParQuiet == /\ pieces = {}
            /\ \A t \in 1..POOL_THREADS : ~running[t].busy

ParStart == /\ pieces' = {[lo |-> 0, hi |-> ParLen]}
            /\ UNCHANGED <<running, partials, calls>>

ParSplit(p) ==
  /\ prog \in {"fan", "cpu"} /\ pc = "par"
  /\ p \in pieces /\ p.hi - p.lo >= 2
  /\ LET mid == p.lo + (p.hi - p.lo) \div 2
     IN pieces' = (pieces \ {p}) \cup {[lo |-> p.lo, hi |-> mid], [lo |-> mid, hi |-> p.hi]}
  /\ UNCHANGED <<running, partials, calls>>
  /\ UNCHANGED <<mainVars, cpuVars, ioVars, rxVars, fibVars>>

ParTake(t, p) ==
  /\ prog \in {"fan", "cpu"} /\ pc = "par"
  /\ p \in pieces /\ ~running[t].busy
  /\ pieces' = pieces \ {p}
  /\ running' = [running EXCEPT ![t] =
                   [busy |-> TRUE, lo |-> p.lo, hi |-> p.hi, cur |-> p.lo, acc |-> 0]]
  /\ UNCHANGED <<partials, calls>>
  /\ UNCHANGED <<mainVars, cpuVars, ioVars, rxVars, fibVars>>

ParWork(t) ==
  /\ prog \in {"fan", "cpu"} /\ pc = "par"
  /\ running[t].busy /\ running[t].cur < running[t].hi
  /\ LET id == running[t].cur
     IN /\ running' = [running EXCEPT ![t].acc = ParFold(running[t].acc, id),
                                      ![t].cur = id + 1]
        /\ calls' = [calls EXCEPT ![id] = @ + 1]
        /\ fed_par' = IF prog = "cpu"
                      THEN fed_par (+) BagOfSeq(DoWorkInputs(id, WORK_PER_WORKER))
                      ELSE fed_par
  /\ UNCHANGED <<pieces, partials, seq_total, fed_seq>>
  /\ UNCHANGED <<mainVars, ioVars, rxVars, fibVars>>

ParFinish(t) ==
  /\ prog \in {"fan", "cpu"} /\ pc = "par"
  /\ running[t].busy /\ running[t].cur = running[t].hi
  /\ partials' = partials \cup
                   {[lo |-> running[t].lo, hi |-> running[t].hi, sum |-> running[t].acc]}
  /\ running' = [running EXCEPT ![t] = Idle]
  /\ UNCHANGED <<pieces, calls>>
  /\ UNCHANGED <<mainVars, cpuVars, ioVars, rxVars, fibVars>>

ParCombine(l, r) ==
  /\ prog \in {"fan", "cpu"} /\ pc = "par"
  /\ l \in partials /\ r \in partials /\ l.hi = r.lo
  /\ partials' = (partials \ {l, r}) \cup
                   {[lo |-> l.lo, hi |-> r.hi, sum |-> ParReduce(l.sum, r.sum)]}
  /\ UNCHANGED <<pieces, running, calls>>
  /\ UNCHANGED <<mainVars, cpuVars, ioVars, rxVars, fibVars>>

\* sum() returns: nothing is queued or running and one result covers the range
ParJoin(next_pc) ==
  /\ pc = "par" /\ ParQuiet
  /\ \E p \in partials :
        /\ partials = {p} /\ p.lo = 0 /\ p.hi = ParLen
        /\ total' = p.sum
        /\ partials' = {}
  /\ pc' = next_pc
  /\ UNCHANGED <<prog, stdout, panic, pieces, running, calls>>
  /\ UNCHANGED <<cpuVars, ioVars, rxVars, fibVars>>

\* main.rs: main
FanStart ==
  /\ prog = "fan" /\ pc = "start"
  /\ ParStart
  /\ pc' = "par"
  /\ UNCHANGED <<prog, stdout, panic, total>>
  /\ UNCHANGED <<cpuVars, ioVars, rxVars, fibVars>>

FanSum == prog = "fan" /\ ParJoin("summed")

FanPrint ==
  /\ prog = "fan" /\ pc = "summed"
  /\ stdout' = stdout \o << <<"Tasks", FAN_NUM_TASKS>>, <<"Work per task", WORK_PER_TASK>>,
                            <<"Total result", total>>, <<"Time">>, <<"Tasks/sec">> >>
  /\ pc' = "done"
  /\ UNCHANGED <<prog, panic, total>>
  /\ UNCHANGED <<rayonVars, cpuVars, ioVars, rxVars, fibVars>>

\* the sequential reference loop over the task ids 0..NUM_TASKS-1
RECURSIVE FanSeqLoop(_, _)
FanSeqLoop(task_id, acc) ==
  IF task_id >= FAN_NUM_TASKS THEN acc
  ELSE FanSeqLoop(task_id + 1, acc + worker(task_id))

(***************************************************************************)
(* bench_cpu.rs: main                                                      *)
(***************************************************************************)
\* Sequential: one do_work call over NUM_WORKERS * WORK_PER_WORKER iterations
CpuSequential ==
  /\ prog = "cpu" /\ pc = "start"
  /\ seq_total' = do_work(0, NUM_WORKERS * WORK_PER_WORKER)
  /\ fed_seq' = BagOfSeq(DoWorkInputs(0, NUM_WORKERS * WORK_PER_WORKER))
  /\ pc' = "seq_done"
  /\ UNCHANGED <<prog, stdout, panic, total, fed_par>>
  /\ UNCHANGED <<rayonVars, ioVars, rxVars, fibVars>>

CpuParallel ==
  /\ prog = "cpu" /\ pc = "seq_done"
  /\ ParStart
  /\ pc' = "par"
  /\ UNCHANGED <<prog, stdout, panic, total>>
  /\ UNCHANGED <<cpuVars, ioVars, rxVars, fibVars>>

CpuSum == prog = "cpu" /\ ParJoin("summed")

CpuPrint ==
  /\ prog = "cpu" /\ pc = "summed"
  /\ stdout' = stdout \o << <<"Benchmark: Parallel Scaling (SHA256)">>,
                            <<"Workers", NUM_WORKERS>>, <<"Work/worker", WORK_PER_WORKER>>,
                            <<"Sequential">>, <<"Parallel">>, <<"Speedup">>, <<"Efficiency">> >>
  /\ pc' = "done"
  /\ UNCHANGED <<prog, panic, total>>
  /\ UNCHANGED <<rayonVars, cpuVars, ioVars, rxVars, fibVars>>

(***************************************************************************)
(* bench_io.rs                                                             *)
(* A task is "spawned" by tokio::spawn, "sleeping" once its first poll has *)
(* registered the timer, "woken" when the timer has fired, and "done" when *)
(* worker has returned and its JoinHandle holds the output.                *)
(***************************************************************************)
TaskIds == 0..(IO_NUM_TASKS - 1)


\* IoWorkerOutput returning a default instead of its own task_id
IoWorkerOutputDefault(task_id) == 0

\* the value worker(task_id) returns after its sleep
IoWorkerOutput(task_id) == task_id


\* HandleReady for a handle that is polled once instead of awaited
HandleReadyUnawaited(id) == task[id] # "unspawned"

\* handle.await resolves once the task has finished
HandleReady(id) == task[id] = "done"

\* (0..NUM_TASKS).map(|i| tokio::spawn(worker(i))): one spawn per step
IoSpawn ==
  /\ prog = "io" /\ pc = "start" /\ handles < IO_NUM_TASKS
  /\ task' = [task EXCEPT ![handles] = "spawned"]
  /\ handles' = handles + 1
  /\ UNCHANGED <<output, next_handle, awaited>>
  /\ UNCHANGED <<mainVars, rayonVars, cpuVars, rxVars, fibVars>>

\* .collect() has every handle; let mut total = 0
IoCollect ==
  /\ prog = "io" /\ pc = "start" /\ handles = IO_NUM_TASKS
  /\ total' = 0
  /\ pc' = "collect"
  /\ UNCHANGED <<prog, stdout, panic>>
  /\ UNCHANGED <<rayonVars, cpuVars, ioVars, rxVars, fibVars>>

\* the runtime polls the task: sleep(..) registers its timer
IoPoll(id) ==
  /\ prog = "io" /\ task[id] = "spawned"
  /\ task' = [task EXCEPT ![id] = "sleeping"]
  /\ UNCHANGED <<handles, output, next_handle, awaited>>
  /\ UNCHANGED <<mainVars, rayonVars, cpuVars, rxVars, fibVars>>

\* the timer of the task fires
IoTimer(id) ==
  /\ prog = "io" /\ task[id] = "sleeping"
  /\ task' = [task EXCEPT ![id] = "woken"]
  /\ UNCHANGED <<handles, output, next_handle, awaited>>
  /\ UNCHANGED <<mainVars, rayonVars, cpuVars, rxVars, fibVars>>

\* the task is polled again and worker returns task_id
IoReturn(id) ==
  /\ prog = "io" /\ task[id] = "woken"
  /\ task' = [task EXCEPT ![id] = "done"]
  /\ output' = [output EXCEPT ![id] = IoWorkerOutput(id)]
  /\ UNCHANGED <<handles, next_handle, awaited>>
  /\ UNCHANGED <<mainVars, rayonVars, cpuVars, rxVars, fibVars>>

\* total += handle.await.unwrap(), for the handles in spawn order
IoAwait ==
  /\ prog = "io" /\ pc = "collect" /\ next_handle < IO_NUM_TASKS
  /\ HandleReady(next_handle)
  /\ total' = total + output[next_handle]
  /\ awaited' = [awaited EXCEPT ![next_handle] = @ + 1]
  /\ next_handle' = next_handle + 1
  /\ UNCHANGED <<prog, pc, stdout, panic, handles, task, output>>
  /\ UNCHANGED <<rayonVars, cpuVars, rxVars, fibVars>>

\* the loop is over: start.elapsed() is taken
IoElapsed ==
  /\ prog = "io" /\ pc = "collect" /\ next_handle = IO_NUM_TASKS
  /\ pc' = "elapsed"
  /\ UNCHANGED <<prog, stdout, panic, total>>
  /\ UNCHANGED <<rayonVars, cpuVars, ioVars, rxVars, fibVars>>

IoPrint ==
  /\ prog = "io" /\ pc = "elapsed"
  /\ stdout' = stdout \o << <<"Benchmark: I/O-bound">>, <<"Tasks", IO_NUM_TASKS>>,
                            <<"Sleep per task">>, <<"Total result", total>>, <<"Time">>,
                            <<"Tasks/sec">>, <<"Sequential would be">>,
                            <<"Concurrency factor">> >>
  /\ pc' = "done"
  /\ UNCHANGED <<prog, panic, total>>
  /\ UNCHANGED <<rayonVars, cpuVars, ioVars, rxVars, fibVars>>

(***************************************************************************)
(* packages/regex/bench_rust.rs and bench_rust_realistic.rs                *)
(* Whether the input file can be read (file_ok) and which patterns         *)
(* Regex::new rejects (compile_fails) are inputs of the run.  A printed    *)
(* benchmark line is recorded as <<name, "result">> or                     *)
(* <<name, "COMPILE FAILED">>; its count and timing columns are left out.  *)
(***************************************************************************)
\* bench_rust.rs: the `benchmarks` vector of main, in declared order
BENCHMARKS == <<"Email", "URL", "Phone", "Digits", "Word Boundary", "Date ISO",
                "IPv4", "Hex Color", "Version", "Alphanumeric">>

\* bench_rust_realistic.rs: the benchmark_pattern calls of main, in order
REALISTIC_CALLS == <<"Email", "URL", "Digits", "Word Boundary", "Date ISO">>

Entries == IF prog = "realistic" THEN REALISTIC_CALLS ELSE BENCHMARKS

RegexHeader == << <<"=">>, <<"Rust Regex Benchmark (regex crate)">>, <<"=">>,
                  <<"Pattern", "Matches", "Avg (us)", "Total (ms)">>, <<"-">> >>

RegexFooter == << <<"-">>, <<"=">> >>

RealisticHeader == << <<"Rust Regex Benchmark - REALISTIC DATA">>, <<"Data size">>,
                      <<"Pattern", "Matches", "Avg (ms)", "Total (ms)", "Iterations">>,
                      <<"-">> >>

\* Result::expect(msg) / Result::unwrap() on an Err: the thread panics with
\* the message and the process ends
PanicWith(msg) ==
  /\ panic' = msg
  /\ pc' = "aborted"


\* ReadInput with the failure swallowed (an empty text instead of a panic)
ReadInputOrDefault(msg) ==
  /\ pc = "start"
  /\ text' = "loaded"
  /\ pc' = "header"
  /\ UNCHANGED <<prog, stdout, total, panic>>
  /\ UNCHANGED <<file_ok, compile_fails, bench, loop_i, passes, compiles>>
  /\ UNCHANGED <<rayonVars, cpuVars, ioVars, fibVars>>

\* fs::read_to_string(..).expect(msg), the first statement of both mains
ReadInput(msg) ==
  /\ pc = "start"
  /\ IF file_ok
     THEN /\ text' = "loaded"
          /\ pc' = "header"
          /\ UNCHANGED panic
     ELSE /\ PanicWith(msg)
          /\ UNCHANGED text
  /\ UNCHANGED <<prog, stdout, total>>
  /\ UNCHANGED <<file_ok, compile_fails, bench, loop_i, passes, compiles>>
  /\ UNCHANGED <<rayonVars, cpuVars, ioVars, fibVars>>

\* benchmark_pattern has returned: main goes on to its next entry, or past
\* the last one
NextEntry(after) ==
  IF bench < Len(Entries)
  THEN bench' = bench + 1 /\ pc' = "compile"
  ELSE bench' = bench /\ pc' = after

\* one find_iter pass over the text by the current entry's regex
FindIterPass == passes' = [passes EXCEPT ![bench] = @ + 1]

\* bench_rust.rs: load_data
RegexLoad == prog = "regex" /\ ReadInput("Failed to read bench_data.txt")

\* bench_rust.rs: main builds the vector and prints the five header lines
RegexPrintHeader ==
  /\ prog = "regex" /\ pc = "header"
  /\ stdout' = stdout \o RegexHeader
  /\ bench' = 1
  /\ pc' = "compile"
  /\ UNCHANGED <<prog, panic, total>>
  /\ UNCHANGED <<file_ok, compile_fails, text, loop_i, passes, compiles>>
  /\ UNCHANGED <<rayonVars, cpuVars, ioVars, fibVars>>


\* RegexCompileErr as an unwrap: the failure ends the run
RegexCompileErrUnwraps ==
  /\ PanicWith("called Result::unwrap() on an Err value")
  /\ UNCHANGED <<stdout, bench, loop_i>>

\* bench_rust.rs: the Err arm of `match Regex::new(pattern)`
RegexCompileErr ==
  /\ stdout' = Append(stdout, <<Entries[bench], "COMPILE FAILED">>)
  /\ NextEntry("footer")
  /\ UNCHANGED <<panic, loop_i>>

\* bench_rust.rs: benchmark_pattern, Regex::new
RegexCompile ==
  /\ prog = "regex" /\ pc = "compile"
  /\ compiles' = compiles + 1
  /\ IF bench \in compile_fails
     THEN RegexCompileErr
     ELSE /\ pc' = "warmup"
          /\ loop_i' = 0
          /\ UNCHANGED <<stdout, panic, bench>>
  /\ UNCHANGED <<prog, total, file_ok, compile_fails, text, passes>>
  /\ UNCHANGED <<rayonVars, cpuVars, ioVars, fibVars>>

\* bench_rust.rs: one iteration of the warmup loop
RegexWarmup ==
  /\ prog = "regex" /\ pc = "warmup" /\ loop_i < WARMUP_PASSES
  /\ FindIterPass
  /\ loop_i' = loop_i + 1
  /\ UNCHANGED <<mainVars, file_ok, compile_fails, text, bench, compiles>>
  /\ UNCHANGED <<rayonVars, cpuVars, ioVars, fibVars>>

\* bench_rust.rs: match_count = regex.find_iter(text).count()
RegexCount ==
  /\ prog = "regex" /\ pc = "warmup" /\ loop_i = WARMUP_PASSES
  /\ FindIterPass
  /\ loop_i' = 0
  /\ pc' = "timed"
  /\ UNCHANGED <<prog, stdout, panic, total>>
  /\ UNCHANGED <<file_ok, compile_fails, text, bench, compiles>>
  /\ UNCHANGED <<rayonVars, cpuVars, ioVars, fibVars>>

\* both programs: one iteration of the timed loop
TimedIteration ==
  /\ prog \in {"regex", "realistic"} /\ pc = "timed" /\ loop_i < ITERATIONS
  /\ FindIterPass
  /\ loop_i' = loop_i + 1
  /\ UNCHANGED <<mainVars, file_ok, compile_fails, text, bench, compiles>>
  /\ UNCHANGED <<rayonVars, cpuVars, ioVars, fibVars>>

\* bench_rust.rs: the result line, and benchmark_pattern returns
RegexReport ==
  /\ prog = "regex" /\ pc = "timed" /\ loop_i = ITERATIONS
  /\ stdout' = Append(stdout, <<Entries[bench], "result">>)
  /\ NextEntry("footer")
  /\ UNCHANGED <<prog, panic, total>>
  /\ UNCHANGED <<file_ok, compile_fails, text, loop_i, passes, compiles>>
  /\ UNCHANGED <<rayonVars, cpuVars, ioVars, fibVars>>

\* bench_rust.rs: the two footer lines
RegexPrintFooter ==
  /\ prog = "regex" /\ pc = "footer"
  /\ stdout' = stdout \o RegexFooter
  /\ pc' = "done"
  /\ UNCHANGED <<prog, panic, total>>
  /\ UNCHANGED <<rxVars, rayonVars, cpuVars, ioVars, fibVars>>

\* bench_rust_realistic.rs: main reads the file
RealisticLoad == prog = "realistic" /\ ReadInput("Failed to read file")

\* bench_rust_realistic.rs: the four header lines
RealisticPrintHeader ==
  /\ prog = "realistic" /\ pc = "header"
  /\ stdout' = stdout \o RealisticHeader
  /\ bench' = 1
  /\ pc' = "compile"
  /\ UNCHANGED <<prog, panic, total>>
  /\ UNCHANGED <<file_ok, compile_fails, text, loop_i, passes, compiles>>
  /\ UNCHANGED <<rayonVars, cpuVars, ioVars, fibVars>>

\* bench_rust_realistic.rs: Regex::new(pattern).unwrap()
RealisticCompile ==
  /\ prog = "realistic" /\ pc = "compile"
  /\ compiles' = compiles + 1
  /\ IF bench \in compile_fails
     THEN PanicWith("called Result::unwrap() on an Err value")
     ELSE pc' = "warmup" /\ UNCHANGED panic
  /\ UNCHANGED <<prog, stdout, total>>
  /\ UNCHANGED <<file_ok, compile_fails, text, bench, loop_i, passes>>
  /\ UNCHANGED <<rayonVars, cpuVars, ioVars, fibVars>>

\* bench_rust_realistic.rs: the warmup pass, whose length is match_count
RealisticWarmup ==
  /\ prog = "realistic" /\ pc = "warmup"
  /\ FindIterPass
  /\ loop_i' = 0
  /\ pc' = "timed"
  /\ UNCHANGED <<prog, stdout, panic, total>>
  /\ UNCHANGED <<file_ok, compile_fails, text, bench, compiles>>
  /\ UNCHANGED <<rayonVars, cpuVars, ioVars, fibVars>>

\* bench_rust_realistic.rs: the result line, and benchmark_pattern returns
RealisticReport ==
  /\ prog = "realistic" /\ pc = "timed" /\ loop_i = ITERATIONS
  /\ stdout' = Append(stdout, <<Entries[bench], "result">>)
  /\ NextEntry("done")
  /\ UNCHANGED <<prog, panic, total>>
  /\ UNCHANGED <<file_ok, compile_fails, text, loop_i, passes, compiles>>
  /\ UNCHANGED <<rayonVars, cpuVars, ioVars, fibVars>>

(***************************************************************************)
(* benchmarks/rust/fibonacci_tail.rs                                       *)
(* A u64 is four 16-bit limbs, least significant first, so that the        *)
(* additions keep their 64-bit width.                                      *)
(***************************************************************************)
LimbBase == 65536

U64(x) == <<x, 0, 0, 0>>

\* a + b on u64: the wrapped sum and the carry out of bit 63
U64Add(x, y) ==
  LET s1 == x[1] + y[1]
      s2 == x[2] + y[2] + s1 \div LimbBase
      s3 == x[3] + y[3] + s2 \div LimbBase
      s4 == x[4] + y[4] + s3 \div LimbBase
  IN [sum   |-> <<s1 % LimbBase, s2 % LimbBase, s3 % LimbBase, s4 % LimbBase>>,
      carry |-> s4 \div LimbBase]

\* fibonacci_tail.rs:8   fib_tail(10000, 0, 1)
FIB_N == 10000

\* main: the head of `for _ in 0..10000`, calling fib_tail(10000, 0, 1)
FibLoop ==
  /\ prog = "fib" /\ pc = "start"
  /\ IF runs < FIB_RUNS
     THEN /\ n' = FIB_N /\ a' = U64(0) /\ b' = U64(1)
          /\ pc' = "call"
     ELSE /\ pc' = "print"
          /\ UNCHANGED <<n, a, b>>
  /\ UNCHANGED <<prog, stdout, panic, total, overflow_checks, runs, fib_result>>
  /\ UNCHANGED <<rayonVars, cpuVars, ioVars, rxVars>>

\* one call of fib_tail(n, a, b).  An overflowing a + b panics in a build with
\* overflow checks (debug) and wraps in one without (release).
FibTail ==
  /\ prog = "fib" /\ pc = "call"
  /\ IF n = 0
     THEN /\ fib_result' = a
          /\ runs' = runs + 1
          /\ pc' = "start"
          /\ UNCHANGED <<n, a, b, panic>>
     ELSE LET s == U64Add(a, b)
          IN IF s.carry # 0 /\ overflow_checks
             THEN /\ PanicWith("attempt to add with overflow")
                  /\ UNCHANGED <<n, a, b, runs, fib_result>>
             ELSE /\ n' = n - 1 /\ a' = b /\ b' = s.sum
                  /\ UNCHANGED <<pc, panic, runs, fib_result>>
  /\ UNCHANGED <<prog, stdout, total, overflow_checks>>
  /\ UNCHANGED <<rayonVars, cpuVars, ioVars, rxVars>>

FibPrint ==
  /\ prog = "fib" /\ pc = "print"
  /\ stdout' = Append(stdout, fib_result)
  /\ pc' = "done"
  /\ UNCHANGED <<prog, panic, total>>
  /\ UNCHANGED <<rayonVars, cpuVars, ioVars, rxVars, fibVars>>

PROGRAMS == {"fan", "cpu", "io", "regex", "realistic", "fib"}

Init ==
  /\ prog \in PROGRAMS
  /\ pc = "start" /\ stdout = <<>> /\ panic = "" /\ total = 0
  /\ pieces = {} /\ running = [t \in 1..POOL_THREADS |-> Idle] /\ partials = {}
  /\ calls = [id \in 0..(ParLen - 1) |-> 0]
  /\ seq_total = 0 /\ fed_seq = EmptyBag /\ fed_par = EmptyBag
  /\ handles = 0 /\ next_handle = 0
  /\ task = [id \in TaskIds |-> "unspawned"]
  /\ output = [id \in TaskIds |-> -1]
  /\ awaited = [id \in TaskIds |-> 0]
  /\ file_ok \in (IF prog \in {"regex", "realistic"} THEN BOOLEAN ELSE {TRUE})
  /\ compile_fails \in (IF prog \in {"regex", "realistic"}
                        THEN SUBSET (1..Len(Entries)) ELSE {{}})
  /\ text = "unread" /\ bench = 0 /\ loop_i = 0 /\ compiles = 0
  /\ passes = [e \in 1..Len(Entries) |-> 0]
  /\ overflow_checks \in (IF prog = "fib" THEN BOOLEAN ELSE {FALSE})
  /\ runs = 0 /\ n = 0 /\ a = U64(0) /\ b = U64(0) /\ fib_result = U64(0)

Next ==
  \/ \E p \in pieces : ParSplit(p)
  \/ \E t \in 1..POOL_THREADS, p \in pieces : ParTake(t, p)
  \/ \E t \in 1..POOL_THREADS : ParWork(t)
  \/ \E t \in 1..POOL_THREADS : ParFinish(t)
  \/ \E l \in partials, r \in partials : ParCombine(l, r)
  \/ FanStart \/ FanSum \/ FanPrint
  \/ CpuSequential \/ CpuParallel \/ CpuSum \/ CpuPrint
  \/ IoSpawn \/ IoCollect \/ IoAwait \/ IoElapsed \/ IoPrint
  \/ \E id \in TaskIds : IoPoll(id) \/ IoTimer(id) \/ IoReturn(id)
  \/ RegexLoad \/ RegexPrintHeader \/ RegexCompile \/ RegexWarmup \/ RegexCount
  \/ TimedIteration \/ RegexReport \/ RegexPrintFooter
  \/ RealisticLoad \/ RealisticPrintHeader \/ RealisticCompile \/ RealisticWarmup
  \/ RealisticReport
  \/ FibLoop \/ FibTail \/ FibPrint

(***************************************************************************)
(* Properties                                                              *)
(***************************************************************************)
TaskIdSum(S) == SumTo([id \in S |-> id], S)

\* C1: in main.rs, however the worker(task_id) calls are distributed over the
\* pool's threads and in whatever order their results are combined, the total
\* equals the total of a sequential loop over the task ids 0..NUM_TASKS-1,
\* every task id contributes exactly once, and that total is the one printed.
C1_FanTotalIsSequentialTotal ==
  (prog = "fan" /\ pc \in {"summed", "done"}) =>
     /\ total = FanSeqLoop(0, 0)
     /\ \A id \in 0..(FAN_NUM_TASKS - 1) : calls[id] = 1
     /\ pc = "done" => stdout[3] = <<"Total result", FanSeqLoop(0, 0)>>

C1_Witness ==
  /\ prog = "fan" /\ pc = "done"
  /\ total = FanSeqLoop(0, 0) /\ total > 0

\* C2 as stated: in bench_cpu.rs the parallel phase's total equals the
\* sequential phase's total and both phases feed the same multiset of values to
\* the hasher.
C2_ParTotalEqualsSeqTotal ==
  (prog = "cpu" /\ pc \in {"summed", "done"}) =>
     /\ total = seq_total
     /\ fed_par = fed_seq

\* C2 amended: the parallel phase's total is NUM_WORKERS times the sequential
\* phase's total (every do_work call returns the length of a hex digest,
\* whatever it hashed), and both phases make the same number of hasher updates,
\* NUM_WORKERS * WORK_PER_WORKER.
C2_ParTotalIsWorkersTimesSeqTotal ==
  (prog = "cpu" /\ pc \in {"summed", "done"}) =>
     /\ total = NUM_WORKERS * seq_total
     /\ BagCardinality(fed_par) = NUM_WORKERS * WORK_PER_WORKER
     /\ BagCardinality(fed_seq) = NUM_WORKERS * WORK_PER_WORKER

C2_Witness ==
  /\ prog = "cpu" /\ pc = "done"
  /\ total # seq_total /\ fed_par # fed_seq

\* C3: the aggregate is used only after a full join: in bench_io.rs main is past
\* the collecting loop only when every spawned task has completed, and in
\* main.rs the parallel sum has returned only when no sub-range is queued or
\* being folded and every worker(task_id) call has returned.
C3_FullJoinBeforeAggregate ==
  /\ (prog = "io" /\ pc \in {"elapsed", "done"}) =>
        \A id \in TaskIds : task[id] = "done"
  /\ (prog = "fan" /\ pc \in {"summed", "done"}) =>
        /\ ParQuiet
        /\ \A id \in 0..(FAN_NUM_TASKS - 1) : calls[id] >= 1

C3_Witness ==
  /\ prog = "io" /\ pc = "elapsed"
  /\ \A id \in TaskIds : task[id] = "done"

\* C4: in bench_io.rs, whatever the order in which the timers fire and the
\* tasks complete, the handles are awaited once each in spawn order, each
\* resolves to its own task id, and the total is the sum of the ids awaited so
\* far: the sum of 0..NUM_TASKS-1 once the loop is over.
C4_IoTotalIsSumOfTaskIds ==
  (prog = "io" /\ pc \in {"collect", "elapsed", "done"}) =>
     /\ total = TaskIdSum(0..(next_handle - 1))
     /\ \A id \in TaskIds : awaited[id] = IF id < next_handle THEN 1 ELSE 0
     /\ \A id \in TaskIds : task[id] = "done" => output[id] = id
     /\ pc \in {"elapsed", "done"} =>
          /\ next_handle = IO_NUM_TASKS
          /\ total = TaskIdSum(TaskIds)

C4_Witness ==
  /\ prog = "io" /\ pc = "collect" /\ next_handle = 2
  /\ total = 1
  /\ task[IO_NUM_TASKS - 1] = "done"

\* the entries of the run that benchmark_pattern has returned from
Returned ==
  IF pc \in {"footer", "done"} THEN 1..Len(Entries)
  ELSE IF pc \in {"compile", "warmup", "timed"} THEN 1..(bench - 1)
  ELSE {}

\* C5: in bench_rust.rs, whichever patterns fail to compile, a failing pattern
\* gives a COMPILE FAILED line and no find_iter pass, every other pattern is
\* benchmarked in full, the run is never aborted, and main prints the header,
\* one line per entry in declared order, and then the footer.
C5_CompileFailureIsSkipped ==
  (prog = "regex" /\ file_ok) =>
     /\ pc # "aborted" /\ panic = ""
     /\ \A e \in compile_fails : passes[e] = 0
     /\ \A e \in Returned :
          /\ stdout[Len(RegexHeader) + e] =
               <<BENCHMARKS[e], IF e \in compile_fails THEN "COMPILE FAILED" ELSE "result">>
          /\ e \notin compile_fails => passes[e] = WARMUP_PASSES + 1 + ITERATIONS
     /\ pc = "done" =>
          /\ Len(stdout) = Len(RegexHeader) + Len(BENCHMARKS) + Len(RegexFooter)
          /\ SubSeq(stdout, Len(stdout) - 1, Len(stdout)) = RegexFooter

C5_Witness ==
  /\ prog = "regex" /\ pc = "done"
  /\ compile_fails = {2, 5, 7}
  /\ stdout[Len(RegexHeader) + 5] = <<"Word Boundary", "COMPILE FAILED">>
  /\ stdout[Len(RegexHeader) + 6] = <<"Date ISO", "result">>

\* C6 as stated: in bench_rust_realistic.rs a pattern that fails to compile is
\* skipped and never aborts the run.
C6_RealisticCompileFailureIsSkipped ==
  (prog = "realistic" /\ file_ok) => pc # "aborted"

\* C7: in both regex benchmarks, when the input file cannot be read the run
\* aborts with a message as the first step of main: no line is printed, no
\* pattern is compiled and benchmark_pattern is never entered.
C7_UnreadableFileAbortsFirst ==
  (prog \in {"regex", "realistic"} /\ ~file_ok) =>
     /\ pc \in {"start", "aborted"}
     /\ stdout = <<>> /\ compiles = 0 /\ bench = 0 /\ text = "unread"
     /\ \A e \in DOMAIN passes : passes[e] = 0
     /\ pc = "aborted" =>
          panic = IF prog = "regex" THEN "Failed to read bench_data.txt"
                  ELSE "Failed to read file"

C7_Witness ==
  /\ prog = "regex" /\ ~file_ok /\ pc = "aborted"
  /\ panic = "Failed to read bench_data.txt"

\* C10 as stated: in fibonacci_tail.rs every addition a + b of
\* fib_tail(10000, 0, 1) stays below 2^64, so no call overflows or aborts.
C10_FibAdditionsFitU64 ==
  prog = "fib" =>
     /\ pc # "aborted"
     /\ (pc = "call" /\ n > 0) => U64Add(a, b).carry = 0

Spec == Init /\ [][Next]_vars
====
